---- MODULE Spec2Model ----
(***************************************************************************)
(* Model of LineHeightManager (src/unnamed/part_001): the per-line height  *)
(* index of the editor's layout.  SpecialLine objects live in a heap and   *)
(* are shared by reference between the decoration map, the ordered array   *)
(* and the pending array, as in the TypeScript class.                      *)
(***************************************************************************)
EXTENDS Integers, Sequences, FiniteSets, TLC

\* ------------------------------------------------------------------ bounds
\* Largest number of SpecialLine objects alive at once.
MaxRecs == 3
\* Largest line number an operation is called with or shifts a record to.
MaxLine == 3
\* Largest number of calls made on one manager.
MaxCalls == 4

\* Decoration ids, in a fixed order.
IdSeq == <<"A", "B">>
Ids == {IdSeq[k] : k \in 1..Len(IdSeq)}
\* Requested (special) heights and default line heights the callers pass.
Heights == {1, 3}
Defaults == {2, 4}

\* ------------------------------------------------------------------ values
\* `undefined`: a missing map entry or an array slot read out of range.
Undefined == 0
\* The value commit() stores in _invalidIndex.
Infinity == 1000

Min2(a, b) == IF a <= b THEN a ELSE b
Max2(a, b) == IF a >= b THEN a ELSE b

\* new SpecialLine(decorationId, index, lineNumber, specialHeight, prefixSum)
SpecialLine(decorationId, index, lineNumber, specialHeight, prefixSum) ==
  [decorationId |-> decorationId, index |-> index, lineNumber |-> lineNumber,
   specialHeight |-> specialHeight, prefixSum |-> prefixSum,
   maximumSpecialHeight |-> specialHeight, deleted |-> FALSE]

\* array[i] of JavaScript, i counted from 0: undefined outside 0..length-1.
At(arr, i) == IF i >= 0 /\ i < Len(arr) THEN arr[i + 1] ELSE Undefined

\* Array.prototype.splice(start, deleteCount, ...items): a negative start counts
\* from the end, and both are clamped to the array.
Splice(arr, start, deleteCount, items) ==
  LET len == Len(arr)
      actualStart == IF start < 0 THEN Max2(len + start, 0) ELSE Min2(start, len)
      actualCount == Min2(Max2(deleteCount, 0), len - actualStart)
  IN SubSeq(arr, 1, actualStart) \o items \o SubSeq(arr, actualStart + actualCount + 1, len)

\* ------------------------------------------------------------------ state
VARIABLES
  heap,                          \* the SpecialLine objects, by reference 1..Len(heap)
  decorationIDToSpecialLine,     \* _decorationIDToSpecialLine: id -> reference or Undefined
  orderedSpecialLines,           \* _orderedSpecialLines: references (or Undefined slots)
  pendingSpecialLinesToInsert,   \* _pendingSpecialLinesToInsert: references
  invalidIndex,                  \* _invalidIndex
  defaultLineHeight,             \* _defaultLineHeight
  hasPending,                    \* _hasPending
  calls,                         \* how many calls the manager has received
  reference                      \* the overrides the decoration calls asked for: id -> (line, height)

vars == <<heap, decorationIDToSpecialLine, orderedSpecialLines,
          pendingSpecialLinesToInsert, invalidIndex, defaultLineHeight, hasPending,
          calls, reference>>

\* The manager as one value m; m.thrown is set when the running call throws a
\* TypeError (a property read on undefined), and the fields are then as the
\* call left them at that point.
Cur ==
  [heap |-> heap, map |-> decorationIDToSpecialLine, ordered |-> orderedSpecialLines,
   pending |-> pendingSpecialLinesToInsert, invalidIndex |-> invalidIndex,
   defaultLineHeight |-> defaultLineHeight, hasPending |-> hasPending, thrown |-> FALSE]

Throw(m) == [m EXCEPT !.thrown = TRUE]

\* ------------------------------------------------------------ binary search
\* The comparator handed to binarySearch2: 0, -1 or 1; reading .lineNumber of an
\* Undefined slot throws (ok = FALSE).
CompareToKey(m, index, lineNumber) ==
  LET line == At(m.ordered, index)
  IN IF line = Undefined THEN [ok |-> FALSE, v |-> 0]
     ELSE IF m.heap[line].lineNumber = lineNumber THEN [ok |-> TRUE, v |-> 0]
     ELSE IF m.heap[line].lineNumber < lineNumber THEN [ok |-> TRUE, v |-> 0 - 1]
     ELSE [ok |-> TRUE, v |-> 1]

\* binarySearch2(length, compareToKey): the index of a match, or -(low + 1).
RECURSIVE BinarySearch2(_, _, _, _)
BinarySearch2(m, lineNumber, low, high) ==
  IF low > high THEN [ok |-> TRUE, v |-> 0 - (low + 1)]
  ELSE LET mid == (low + high) \div 2
           comp == CompareToKey(m, mid, lineNumber)
       IN IF ~comp.ok THEN comp
          ELSE IF comp.v < 0 THEN BinarySearch2(m, lineNumber, mid + 1, high)
          ELSE IF comp.v > 0 THEN BinarySearch2(m, lineNumber, low, mid - 1)
          ELSE [ok |-> TRUE, v |-> mid]

BinarySearchOverSpecialLinesArray(m, lineNumber) ==
  BinarySearch2(m, lineNumber, 0, Len(m.ordered) - 1)

\* ---------------------------------------------------------------- mutators
\* The setter made to invalidate every stored sum: it marks the manager dirty
\* from index 0.
SetDefaultLineHeightInvalidating(m, h) ==
  [m EXCEPT !.defaultLineHeight = h, !.invalidIndex = 0, !.hasPending = TRUE]

\* set defaultLineHeight(h)
SetDefaultLineHeight(m, h) ==
  [m EXCEPT !.defaultLineHeight = h]

\* removeSpecialLineUsingDecoration without the Math.min line: _invalidIndex
\* stays where it was.
RemoveSpecialLineUsingDecorationNotInvalidating(m, decorationID) ==
  LET specialLine == m.map[decorationID]
  IN IF specialLine = Undefined THEN m
     ELSE [m EXCEPT !.map[decorationID] = Undefined,
                    !.heap[specialLine].deleted = TRUE,
                    !.hasPending = TRUE]

\* removeSpecialLineUsingDecoration with `this._hasPending = true` moved above
\* the lookup: an id the map does not hold still marks the manager dirty.
RemoveSpecialLineUsingDecorationFlagsFirst(m, decorationID) ==
  LET specialLine == m.map[decorationID]
  IN IF specialLine = Undefined THEN [m EXCEPT !.hasPending = TRUE]
     ELSE [m EXCEPT !.map[decorationID] = Undefined,
                    !.heap[specialLine].deleted = TRUE,
                    !.invalidIndex = Min2(m.invalidIndex, m.heap[specialLine].index),
                    !.hasPending = TRUE]

RemoveSpecialLineUsingDecoration(m, decorationID) ==
  LET specialLine == m.map[decorationID]
  IN IF specialLine = Undefined THEN m
     ELSE [m EXCEPT !.map[decorationID] = Undefined,
                    !.heap[specialLine].deleted = TRUE,
                    !.invalidIndex = Min2(m.invalidIndex, m.heap[specialLine].index),
                    !.hasPending = TRUE]

\* _insertSpecialLineHeight that also invalidates from index 0, as the change
\* of a known id invalidates from the record's index.
InsertSpecialLineHeightInvalidating(m, decorationId, lineNumber, specialHeight) ==
  [m EXCEPT !.heap = Append(m.heap, SpecialLine(decorationId, 0 - 1, lineNumber, specialHeight, 0)),
            !.pending = Append(m.pending, Len(m.heap) + 1),
            !.invalidIndex = 0,
            !.hasPending = TRUE]

\* _insertSpecialLineHeight without `this._hasPending = true`: the next commit
\* returns early and the record stays in the pending array.
InsertSpecialLineHeightNotFlagged(m, decorationId, lineNumber, specialHeight) ==
  [m EXCEPT !.heap = Append(m.heap, SpecialLine(decorationId, 0 - 1, lineNumber, specialHeight, 0)),
            !.pending = Append(m.pending, Len(m.heap) + 1)]

InsertSpecialLineHeight(m, decorationId, lineNumber, specialHeight) ==
  LET specialLine == Len(m.heap) + 1
  IN [m EXCEPT !.heap = Append(m.heap, SpecialLine(decorationId, 0 - 1, lineNumber, specialHeight, 0)),
               !.pending = Append(m.pending, specialLine),
               !.hasPending = TRUE]

\* insertOrChangeSpecialLineHeightUsingDecoration assigning the record's index to
\* _invalidIndex instead of the minimum of the two.
InsertOrChangeWithoutMin(m, decorationId, lineNumber, lineHeight) ==
  LET specialLine == m.map[decorationId]
  IN IF specialLine = Undefined
     THEN InsertSpecialLineHeight(m, decorationId, lineNumber, lineHeight)
     ELSE [m EXCEPT !.heap[specialLine].lineNumber = lineNumber,
                    !.heap[specialLine].specialHeight = lineHeight,
                    !.invalidIndex = m.heap[specialLine].index,
                    !.hasPending = TRUE]

InsertOrChangeSpecialLineHeightUsingDecoration(m, decorationId, lineNumber, lineHeight) ==
  LET specialLine == m.map[decorationId]
  IN IF specialLine = Undefined
     THEN InsertSpecialLineHeight(m, decorationId, lineNumber, lineHeight)
     ELSE [m EXCEPT !.heap[specialLine].lineNumber = lineNumber,
                    !.heap[specialLine].specialHeight = lineHeight,
                    !.invalidIndex = Min2(m.invalidIndex, m.heap[specialLine].index),
                    !.hasPending = TRUE]

\* ------------------------------------------------------------------ commit
\* The pending loop of commit() without its splice: the pending records never
\* reach the ordered array.
MergePendingWithoutSplice(m, k) == [m EXCEPT !.invalidIndex = Min2(m.invalidIndex, Len(m.ordered))]

\* commit(): for (const pendingChange of this._pendingSpecialLinesToInsert),
\* from the k-th pending record on.  A throwing search leaves the records
\* merged so far in the array and the pending array as it was.
RECURSIVE MergePending(_, _)
MergePending(m, k) ==
  IF k > Len(m.pending) THEN m
  ELSE LET pendingChange == m.pending[k]
           searchIndex == BinarySearchOverSpecialLinesArray(m, m.heap[pendingChange].lineNumber)
       IN IF ~searchIndex.ok THEN Throw(m)
          ELSE LET modifiedSearchInde ==
                     IF searchIndex.v >= 0 THEN searchIndex.v ELSE 0 - (searchIndex.v + 1)
               IN MergePending(
                    [m EXCEPT !.ordered = Splice(m.ordered, modifiedSearchInde, 0, <<pendingChange>>),
                              !.invalidIndex = Min2(m.invalidIndex, modifiedSearchInde)],
                    k + 1)

\* commit(): for (let i = 0; i < this._invalidIndex; i++) push(ordered[i]); a
\* slot at or past the length is pushed as undefined.
CopyPrefix(m) == [i \in 1..m.invalidIndex |-> At(m.ordered, i - 1)]

\* commit(): for (let j = i; ...) the maximum specialHeight over the run of
\* specialLine, skipping deleted records.
RECURSIVE MaximumOfRun(_, _, _, _)
MaximumOfRun(m, specialLine, j, maximumSpecialHeight) ==
  IF j >= Len(m.ordered) THEN [ok |-> TRUE, v |-> maximumSpecialHeight]
  ELSE LET nextSpecialLine == At(m.ordered, j)
       IN IF nextSpecialLine = Undefined THEN [ok |-> FALSE, v |-> 0]
          ELSE IF m.heap[nextSpecialLine].deleted
               THEN MaximumOfRun(m, specialLine, j + 1, maximumSpecialHeight)
          ELSE IF m.heap[nextSpecialLine].lineNumber # m.heap[specialLine].lineNumber
               THEN [ok |-> TRUE, v |-> maximumSpecialHeight]
          ELSE MaximumOfRun(m, specialLine, j + 1,
                            Max2(maximumSpecialHeight, m.heap[nextSpecialLine].specialHeight))

\* commit(): for (let i = this._invalidIndex; i < length; i++), on
\* c = [m, newOrdered, newMap, numberOfDeletions].
RECURSIVE Recompute(_, _)
Recompute(c, i) ==
  IF i >= Len(c.m.ordered) THEN c
  ELSE
    LET specialLine == At(c.m.ordered, i)
    IN IF specialLine = Undefined THEN [c EXCEPT !.m = Throw(c.m)]
       ELSE IF c.m.heap[specialLine].deleted
            THEN Recompute([c EXCEPT !.numberOfDeletions = @ + 1], i + 1)
       ELSE
         LET previousSpecialLine == IF i > 0 THEN At(c.m.ordered, i - 1) ELSE Undefined
             m1 == [c.m EXCEPT !.heap[specialLine].index = i - c.numberOfDeletions]
             decorationId == m1.heap[specialLine].decorationId
         IN IF previousSpecialLine # Undefined
               /\ m1.heap[previousSpecialLine].lineNumber = m1.heap[specialLine].lineNumber
            THEN
              Recompute(
                [c EXCEPT !.m = [m1 EXCEPT
                                   !.heap[specialLine].maximumSpecialHeight =
                                      m1.heap[previousSpecialLine].maximumSpecialHeight,
                                   !.heap[specialLine].prefixSum =
                                      m1.heap[previousSpecialLine].prefixSum],
                          !.newOrdered = Append(@, specialLine),
                          !.newMap[decorationId] = specialLine],
                i + 1)
            ELSE
              LET maximumSpecialHeight ==
                    MaximumOfRun(m1, specialLine, i, m1.heap[specialLine].specialHeight)
                  m2 == [m1 EXCEPT !.heap[specialLine].maximumSpecialHeight = maximumSpecialHeight.v]
                  prefixSum ==
                    IF previousSpecialLine # Undefined
                    THEN m2.heap[previousSpecialLine].prefixSum
                         + m2.heap[previousSpecialLine].maximumSpecialHeight
                         + m2.defaultLineHeight
                           * (m2.heap[specialLine].lineNumber
                              - m2.heap[previousSpecialLine].lineNumber - 1)
                    ELSE m2.defaultLineHeight * (m2.heap[specialLine].lineNumber - 1)
              IN IF ~maximumSpecialHeight.ok THEN [c EXCEPT !.m = Throw(m1)]
                 ELSE Recompute(
                        [c EXCEPT !.m = [m2 EXCEPT !.heap[specialLine].prefixSum = prefixSum],
                                  !.newOrdered = Append(@, specialLine),
                                  !.newMap[decorationId] = specialLine],
                        i + 1)

\* The end of commit() without `this._invalidIndex = Infinity`.
CommitRecomputedKeepsInvalidIndex(c) ==
  IF c.m.thrown THEN c.m
  ELSE [c.m EXCEPT !.ordered = c.newOrdered, !.map = c.newMap, !.hasPending = FALSE]

\* The end of commit() without `this._hasPending = false`: every later call
\* commits again.
CommitRecomputedStillPending(c) ==
  IF c.m.thrown THEN c.m
  ELSE [c.m EXCEPT !.ordered = c.newOrdered, !.map = c.newMap, !.invalidIndex = Infinity]

\* commit(), from `const newDecorationIDToSpecialLineMap` to the end, on the
\* manager c.m as the recomputing loop left it.
CommitRecomputed(c) ==
  IF c.m.thrown THEN c.m
  ELSE [c.m EXCEPT !.ordered = c.newOrdered, !.map = c.newMap,
                   !.invalidIndex = Infinity, !.hasPending = FALSE]

\* commit(), after the loop over the pending records.  With _invalidIndex still
\* Infinity the copying loop would never end: the call does not return normally
\* (modelled as a throw).
CommitMerged(m) ==
  IF m.thrown THEN m
  ELSE IF m.invalidIndex = Infinity THEN Throw([m EXCEPT !.pending = <<>>])
  ELSE CommitRecomputed(
         Recompute([m |-> [m EXCEPT !.pending = <<>>], newOrdered |-> CopyPrefix(m),
                    newMap |-> m.map, numberOfDeletions |-> 0],
                   m.invalidIndex))

\* commit()
Commit(m) == IF ~m.hasPending THEN m ELSE CommitMerged(MergePending(m, 1))

MustCommit(m) == m.hasPending

\* ----------------------------------------------------------------- queries
\* A query's outcome: the manager after it, and the value returned (0 when it
\* threw).  The ...Committed operators are the method bodies after this.commit().
HeightForLineNumberCommitted(m, lineNumber) ==
  LET searchIndex == BinarySearchOverSpecialLinesArray(m, lineNumber)
  IN IF m.thrown THEN [m |-> m, ret |-> 0]
     ELSE IF ~searchIndex.ok THEN [m |-> Throw(m), ret |-> 0]
     ELSE IF searchIndex.v >= 0
          THEN [m |-> m, ret |-> m.heap[At(m.ordered, searchIndex.v)].maximumSpecialHeight]
     ELSE [m |-> m, ret |-> m.defaultLineHeight]

HeightForLineNumber(m, lineNumber) == HeightForLineNumberCommitted(Commit(m), lineNumber)

\* totalHeightUntilLineNumber, once the search returned searchIndex.
TotalHeightAt(m, lineNumber, searchIndex) ==
  LET found == At(m.ordered, searchIndex)
      modifiedIndex == 0 - (searchIndex + 1)
      previousSpecialLine == At(m.ordered, modifiedIndex - 1)
  IN IF searchIndex >= 0
     THEN [m |-> m, ret |-> m.heap[found].prefixSum + m.heap[found].maximumSpecialHeight]
     ELSE IF searchIndex = 0 - 1
          THEN [m |-> m, ret |-> m.defaultLineHeight * lineNumber]
     ELSE IF previousSpecialLine = Undefined THEN [m |-> Throw(m), ret |-> 0]
     ELSE [m |-> m,
           ret |-> m.heap[previousSpecialLine].prefixSum
                   + m.heap[previousSpecialLine].maximumSpecialHeight
                   + m.defaultLineHeight * (lineNumber - m.heap[previousSpecialLine].lineNumber)]

TotalHeightUntilLineNumberCommitted(m, lineNumber) ==
  LET searchIndex == BinarySearchOverSpecialLinesArray(m, lineNumber)
  IN IF m.thrown THEN [m |-> m, ret |-> 0]
     ELSE IF ~searchIndex.ok THEN [m |-> Throw(m), ret |-> 0]
     ELSE TotalHeightAt(m, lineNumber, searchIndex.v)

TotalHeightUntilLineNumber(m, lineNumber) ==
  TotalHeightUntilLineNumberCommitted(Commit(m), lineNumber)

\* ------------------------------------------------------------- range edits
\* onLinesDeleted / onLinesInserted: for (let i = from - 1; i >= 0; i--) count the
\* records just before index `from` whose lineNumber is lineNumber.
RECURSIVE WidenBackward(_, _, _, _)
WidenBackward(m, i, lineNumber, count) ==
  IF i < 0 THEN [ok |-> TRUE, v |-> count]
  ELSE LET line == At(m.ordered, i)
       IN IF line = Undefined THEN [ok |-> FALSE, v |-> 0]
          ELSE IF m.heap[line].lineNumber = lineNumber
               THEN WidenBackward(m, i - 1, lineNumber, count + 1)
          ELSE [ok |-> TRUE, v |-> count]

\* onLinesDeleted: for (let i = endIndexOfDeletion + 1; i < length; i++) count
\* the records after the end whose lineNumber is lineNumber.
RECURSIVE WidenForward(_, _, _, _)
WidenForward(m, i, lineNumber, count) ==
  IF i >= Len(m.ordered) THEN [ok |-> TRUE, v |-> count]
  ELSE LET line == At(m.ordered, i)
       IN IF line = Undefined THEN [ok |-> FALSE, v |-> 0]
          ELSE IF m.heap[line].lineNumber = lineNumber
               THEN WidenForward(m, i + 1, lineNumber, count + 1)
          ELSE [ok |-> TRUE, v |-> count]

\* for (let i = start; i < length; i++) ordered[i].lineNumber += delta; reading
\* an Undefined slot (index -1 included) throws with the earlier slots shifted.
RECURSIVE ShiftFrom(_, _, _)
ShiftFrom(m, i, delta) ==
  IF i >= Len(m.ordered) THEN m
  ELSE LET line == At(m.ordered, i)
       IN IF line = Undefined THEN Throw(m)
          ELSE ShiftFrom([m EXCEPT !.heap[line].lineNumber = @ + delta], i + 1, delta)

\* onLinesDeleted: modifiedStartIndexOfDeletion from the search result.
ModifiedStartIndexOfDeletion(m, fromLineNumber, startIndexOfDeletion) ==
  IF startIndexOfDeletion >= 0
  THEN LET ties == WidenBackward(m, startIndexOfDeletion - 1, fromLineNumber, 0)
       IN [ok |-> ties.ok, v |-> startIndexOfDeletion - ties.v - 1]
  ELSE [ok |-> TRUE, v |-> 0 - (startIndexOfDeletion + 1)]

\* onLinesDeleted: modifiedEndIndexOfDeletion from the search result; the
\* widening loop compares with fromLineNumber.
ModifiedEndIndexOfDeletion(m, fromLineNumber, endIndexOfDeletion) ==
  IF endIndexOfDeletion >= 0
  THEN LET ties == WidenForward(m, endIndexOfDeletion + 1, fromLineNumber, 0)
       IN [ok |-> ties.ok, v |-> endIndexOfDeletion + ties.v + 1]
  ELSE [ok |-> TRUE, v |-> 0 - (endIndexOfDeletion + 1)]

\* onLinesDeleted: the splice and the shifting loop.
SpliceAndShift(m, start, end, numberOfDeletedLines) ==
  ShiftFrom([m EXCEPT !.ordered = Splice(m.ordered, start, end - start, <<>>)],
            start, 0 - numberOfDeletedLines)

\* onLinesDeleted after this.commit()
OnLinesDeletedCommitted(m, fromLineNumber, toLineNumber) ==
  LET startIndexOfDeletion == BinarySearchOverSpecialLinesArray(m, fromLineNumber)
      start == ModifiedStartIndexOfDeletion(m, fromLineNumber, startIndexOfDeletion.v)
      endIndexOfDeletion == BinarySearchOverSpecialLinesArray(m, toLineNumber)
      end == ModifiedEndIndexOfDeletion(m, fromLineNumber, endIndexOfDeletion.v)
  IN IF m.thrown THEN m
     ELSE IF ~startIndexOfDeletion.ok THEN Throw(m)
     ELSE IF ~start.ok THEN Throw(m)
     ELSE IF ~endIndexOfDeletion.ok THEN Throw(m)
     ELSE IF ~end.ok THEN Throw(m)
     ELSE SpliceAndShift(m, start.v, end.v, toLineNumber - fromLineNumber + 1)

OnLinesDeleted(m, fromLineNumber, toLineNumber) ==
  OnLinesDeletedCommitted(Commit(m), fromLineNumber, toLineNumber)

\* onLinesInserted: startIndex from the search result.
StartIndexOfInsertion(m, fromLineNumber, searchIndex) ==
  IF searchIndex >= 0
  THEN LET ties == WidenBackward(m, searchIndex - 1, fromLineNumber, 0)
       IN [ok |-> ties.ok, v |-> searchIndex - ties.v]
  ELSE [ok |-> TRUE, v |-> 0 - (searchIndex + 1)]

\* onLinesInserted after this.commit()
OnLinesInsertedCommitted(m, fromLineNumber, toLineNumber) ==
  LET searchIndex == BinarySearchOverSpecialLinesArray(m, fromLineNumber + 1)
      startIndex == StartIndexOfInsertion(m, fromLineNumber, searchIndex.v)
  IN IF m.thrown THEN m
     ELSE IF ~searchIndex.ok THEN Throw(m)
     ELSE IF ~startIndex.ok THEN Throw(m)
     ELSE ShiftFrom(m, startIndex.v, toLineNumber - fromLineNumber + 1)

OnLinesInserted(m, fromLineNumber, toLineNumber) ==
  OnLinesInsertedCommitted(Commit(m), fromLineNumber, toLineNumber)

\* ------------------------------------------------------- object references
\* A SpecialLine is reachable through the ordered array, the pending array or
\* the decoration map; object identity is not observable, so after each call
\* the reachable objects are renumbered in that order and the rest are dropped
\* (garbage collection).
RECURSIVE Distinct(_, _)
Distinct(refs, seen) ==
  IF refs = <<>> THEN seen
  ELSE IF \E k \in 1..Len(seen) : seen[k] = Head(refs)
       THEN Distinct(Tail(refs), seen)
       ELSE Distinct(Tail(refs), Append(seen, Head(refs)))

IsReference(r) == r # Undefined

Reachable(m) ==
  Distinct(SelectSeq(m.ordered, IsReference) \o m.pending
           \o SelectSeq([k \in 1..Len(IdSeq) |-> m.map[IdSeq[k]]], IsReference), <<>>)

Collect(m) ==
  LET live == Reachable(m)
      Moved(r) == IF r = Undefined THEN Undefined
                  ELSE CHOOSE k \in 1..Len(live) : live[k] = r
  IN [m EXCEPT !.heap = [k \in 1..Len(live) |-> m.heap[live[k]]],
               !.map = [id \in Ids |-> Moved(m.map[id])],
               !.ordered = [k \in 1..Len(m.ordered) |-> Moved(m.ordered[k])],
               !.pending = [k \in 1..Len(m.pending) |-> Moved(m.pending[k])]]

\* ------------------------------------------------------------------ actions
\* The manager after a call becomes the state.
Becomes(m0) ==
  LET m == Collect(m0)
  IN /\ calls < MaxCalls
     /\ calls' = calls + 1
     /\ heap' = m.heap
     /\ decorationIDToSpecialLine' = m.map
     /\ orderedSpecialLines' = m.ordered
     /\ pendingSpecialLinesToInsert' = m.pending
     /\ invalidIndex' = m.invalidIndex
     /\ defaultLineHeight' = m.defaultLineHeight
     /\ hasPending' = m.hasPending

\* Every line number stays within the lines the model covers.
LinesWithin(m) ==
  \A r \in 1..Len(m.heap) : m.heap[r].lineNumber >= 0 /\ m.heap[r].lineNumber <= MaxLine

\* A range edit is taken only when it keeps the line numbers within the model.
BecomesWithin(m) == LinesWithin(m) /\ Becomes(m)

\* The reference of the ordering guarantee: what each id was last asked to be.
NoOverride == [lineNumber |-> 0, height |-> 0]

\* new LineHeightManager(defaultLineHeight)
Init ==
  /\ heap = <<>>
  /\ decorationIDToSpecialLine = [id \in Ids |-> Undefined]
  /\ orderedSpecialLines = <<>>
  /\ pendingSpecialLinesToInsert = <<>>
  /\ invalidIndex = 0
  /\ defaultLineHeight \in Defaults
  /\ hasPending = FALSE
  /\ calls = 0
  /\ reference = [id \in Ids |-> NoOverride]

\* A new id allocates a SpecialLine.
CanInsertOrChange(m, id) == m.map[id] = Undefined => Len(m.heap) < MaxRecs

CallInsertOrChange(id, lineNumber, lineHeight) ==
  /\ CanInsertOrChange(Cur, id)
  /\ Becomes(InsertOrChangeSpecialLineHeightUsingDecoration(Cur, id, lineNumber, lineHeight))

CallRemove(id) == Becomes(RemoveSpecialLineUsingDecoration(Cur, id))

DoSetDefaultLineHeight ==
  \E h \in Defaults :
    /\ Becomes(SetDefaultLineHeight(Cur, h))
    /\ UNCHANGED reference

DoRemove ==
  \E id \in Ids : CallRemove(id) /\ UNCHANGED reference

DoInsertOrChange ==
  \E id \in Ids, lineNumber \in 1..MaxLine, lineHeight \in Heights :
    CallInsertOrChange(id, lineNumber, lineHeight) /\ UNCHANGED reference

DoHeightForLineNumber ==
  \E lineNumber \in 1..MaxLine :
    /\ Becomes(HeightForLineNumber(Cur, lineNumber).m)
    /\ UNCHANGED reference

DoTotalHeightUntilLineNumber ==
  \E lineNumber \in 0..MaxLine :
    /\ Becomes(TotalHeightUntilLineNumber(Cur, lineNumber).m)
    /\ UNCHANGED reference

DoOnLinesDeleted ==
  \E fromLineNumber \in 1..MaxLine, toLineNumber \in 1..MaxLine :
    /\ fromLineNumber <= toLineNumber
    /\ BecomesWithin(OnLinesDeleted(Cur, fromLineNumber, toLineNumber))
    /\ UNCHANGED reference

DoOnLinesInserted ==
  \E fromLineNumber \in 1..MaxLine, toLineNumber \in 1..MaxLine :
    /\ fromLineNumber <= toLineNumber
    /\ BecomesWithin(OnLinesInserted(Cur, fromLineNumber, toLineNumber))
    /\ UNCHANGED reference

Next ==
  \/ DoSetDefaultLineHeight
  \/ DoRemove
  \/ DoInsertOrChange
  \/ DoHeightForLineNumber
  \/ DoTotalHeightUntilLineNumber
  \/ DoOnLinesDeleted
  \/ DoOnLinesInserted

Spec == Init /\ [][Next]_vars

\* Decoration calls and queries only, with the reference kept in program order.
RefInsertOrChange ==
  \E id \in Ids, lineNumber \in 1..MaxLine, lineHeight \in Heights :
    /\ CallInsertOrChange(id, lineNumber, lineHeight)
    /\ reference' = [reference EXCEPT ![id] = [lineNumber |-> lineNumber, height |-> lineHeight]]

RefRemove ==
  \E id \in Ids :
    /\ CallRemove(id)
    /\ reference' = [reference EXCEPT ![id] = NoOverride]

NextDecorations ==
  \/ RefInsertOrChange
  \/ RefRemove
  \/ DoHeightForLineNumber
  \/ DoTotalHeightUntilLineNumber

SpecDecorations == Init /\ [][NextDecorations]_vars

\* ------------------------------------------------------------------ claims
\* What the claims speak of: the live overrides of a manager and the values a
\* correct index would report for them.
MaxOf(S) == CHOOSE x \in S : \A y \in S : y <= x

\* The non-deleted records of the ordered array on line n (as references).
LiveOn(m, n) ==
  {m.ordered[k] : k \in {j \in 1..Len(m.ordered) :
                           /\ m.ordered[j] # Undefined
                           /\ ~m.heap[m.ordered[j]].deleted
                           /\ m.heap[m.ordered[j]].lineNumber = n}}

RequestedHeights(m, refs) == {m.heap[r].specialHeight : r \in refs}

ExpectedHeight(m, n) ==
  IF LiveOn(m, n) = {} THEN m.defaultLineHeight
  ELSE MaxOf(RequestedHeights(m, LiveOn(m, n)))

\* The same from the reference map of the decoration calls.
ReferenceHeight(n) ==
  LET on == {id \in Ids : reference[id] # NoOverride /\ reference[id].lineNumber = n}
  IN IF on = {} THEN defaultLineHeight
     ELSE MaxOf({reference[id].height : id \in on})

RECURSIVE ReferenceTotal(_)
ReferenceTotal(n) == IF n <= 0 THEN 0 ELSE ReferenceTotal(n - 1) + ReferenceHeight(n)

\* An id no record of the manager carries and the map does not hold.
UnknownId(m, id) ==
  /\ m.map[id] = Undefined
  /\ \A r \in 1..Len(m.heap) : m.heap[r].decorationId # id

\* The manager holds nothing at all.
IsEmpty(m) ==
  /\ m.ordered = <<>>
  /\ m.pending = <<>>
  /\ \A id \in Ids : m.map[id] = Undefined

\* C1: after any sequence of calls, heightForLineNumber(n) returns the default
\* height when no non-deleted record of the index is on line n, and otherwise the
\* largest specialHeight of the non-deleted records on line n.
C1_HeightIsMaxOfLiveOverrides ==
  \A n \in 1..MaxLine :
    LET r == HeightForLineNumber(Cur, n)
    IN ~r.m.thrown => r.ret = ExpectedHeight(r.m, n)

\* C2: after any sequence of insertOrChange and remove calls, with or without
\* queries in between, both queries return the values of the reference map kept
\* in program order.
C2_QueriesFollowReference ==
  \A n \in 1..MaxLine :
    /\ HeightForLineNumber(Cur, n).ret = ReferenceHeight(n)
    /\ TotalHeightUntilLineNumber(Cur, n).ret = ReferenceTotal(n)

\* C3: in every reachable state totalHeightUntilLineNumber is the running sum of
\* heightForLineNumber: total(0) = 0 and total(n) - total(n-1) = height(n).
C3_TotalIsRunningSumOfHeights ==
  /\ TotalHeightUntilLineNumber(Cur, 0).ret = 0
  /\ \A n \in 1..MaxLine :
       TotalHeightUntilLineNumber(Cur, n).ret - TotalHeightUntilLineNumber(Cur, n - 1).ret
         = HeightForLineNumber(Cur, n).ret

\* C4: in every reachable state (all heights are non-negative)
\* totalHeightUntilLineNumber is non-decreasing in the line number.
C4_TotalIsMonotone ==
  \A a \in 0..MaxLine, b \in 0..MaxLine :
    a <= b => TotalHeightUntilLineNumber(Cur, a).ret <= TotalHeightUntilLineNumber(Cur, b).ret

\* C5: when two or more overrides are on one line its height is the largest of
\* their requested heights, and after removing the override that holds the
\* largest, it is the largest requested height of those that remain.
C5_MaxWinsAndRemovalLowers ==
  \A id \in Ids :
    LET m == Commit(Cur)
        removed == m.map[id]
        n == m.heap[removed].lineNumber
        remaining == LiveOn(m, n) \ {removed}
    IN (/\ ~m.thrown
        /\ removed # Undefined
        /\ removed \in LiveOn(m, n)
        /\ remaining # {}
        /\ \A r \in remaining : m.heap[r].specialHeight <= m.heap[removed].specialHeight)
       => /\ HeightForLineNumber(m, n).ret = m.heap[removed].specialHeight
          /\ HeightForLineNumber(RemoveSpecialLineUsingDecoration(m, id), n).ret
               = MaxOf(RequestedHeights(m, remaining))

\* C6: for an id not yet known, insertOrChange(id, L, H) directly followed by
\* remove(id) leaves heightForLineNumber(L) at the value it had before.
C6_InsertThenRemoveRestoresHeight ==
  \A id \in Ids, lineNumber \in 1..MaxLine, lineHeight \in Heights :
    UnknownId(Cur, id) =>
      HeightForLineNumber(
        RemoveSpecialLineUsingDecoration(
          InsertOrChangeSpecialLineHeightUsingDecoration(Cur, id, lineNumber, lineHeight), id),
        lineNumber).ret
      = HeightForLineNumber(Cur, lineNumber).ret

\* C7: onLinesInserted(from, to) followed by onLinesDeleted(from, to) leaves
\* every override present, on the line and with the effective height it had.
C7_InsertThenDeleteLinesRestores ==
  \A fromLineNumber \in 1..MaxLine, toLineNumber \in 1..MaxLine :
    LET before == Commit(Cur)
        after == OnLinesDeleted(OnLinesInserted(before, fromLineNumber, toLineNumber),
                                fromLineNumber, toLineNumber)
    IN (fromLineNumber <= toLineNumber /\ ~before.thrown) =>
         \A n \in 0..MaxLine : \A r \in LiveOn(before, n) :
           /\ r \in LiveOn(after, n)
           /\ after.heap[r].maximumSpecialHeight = before.heap[r].maximumSpecialHeight
           /\ HeightForLineNumber(after, n).ret = HeightForLineNumber(before, n).ret

\* C8: when a query (heightForLineNumber or totalHeightUntilLineNumber) returns,
\* the same query called again with no call in between returns the same value
\* and leaves every field of the manager as the first call left it; and commit
\* on a manager whose _hasPending is false changes nothing.
C8_QueriesAreIdempotent ==
  /\ ~MustCommit(Cur) => Commit(Cur) = Cur
  /\ \A n \in 0..MaxLine :
       LET height == HeightForLineNumber(Cur, n)
           total == TotalHeightUntilLineNumber(Cur, n)
       IN /\ ~height.m.thrown => HeightForLineNumber(height.m, n) = height
          /\ ~total.m.thrown => TotalHeightUntilLineNumber(total.m, n) = total

\* C8 happens: a manager with a pending record beside committed ones, on which
\* a query commits, returns an override's height, and is then repeated.
C8_Witness ==
  /\ hasPending
  /\ pendingSpecialLinesToInsert # <<>>
  /\ orderedSpecialLines # <<>>
  /\ \E n \in 1..MaxLine :
       LET height == HeightForLineNumber(Cur, n)
       IN /\ ~height.m.thrown
          /\ ~MustCommit(height.m)
          /\ Len(height.m.ordered) > Len(orderedSpecialLines)
          /\ height.ret # defaultLineHeight
          /\ HeightForLineNumber(height.m, n) = height

\* C9: on a manager that holds nothing, with default height d, after
\* insertOrChange(id, L, H): heightForLineNumber(L) = H,
\* totalHeightUntilLineNumber(L) = d * (L - 1) + H and
\* totalHeightUntilLineNumber(L - 1) = d * (L - 1), and none of the calls throws.
C9_SingleOverrideOnEmptyIndex ==
  IsEmpty(Cur) =>
    \A id \in Ids, lineNumber \in 1..MaxLine, lineHeight \in Heights :
      LET m == InsertOrChangeSpecialLineHeightUsingDecoration(Cur, id, lineNumber, lineHeight)
          height == HeightForLineNumber(m, lineNumber)
          total == TotalHeightUntilLineNumber(m, lineNumber)
          before == TotalHeightUntilLineNumber(m, lineNumber - 1)
      IN /\ ~height.m.thrown /\ ~total.m.thrown /\ ~before.m.thrown
         /\ height.ret = lineHeight
         /\ total.ret = defaultLineHeight * (lineNumber - 1) + lineHeight
         /\ before.ret = defaultLineHeight * (lineNumber - 1)

\* C9 happens: the first call on a new manager was an insertOrChange on a line
\* past the first, and the queries report it.
C9_Witness ==
  /\ calls = 1
  /\ orderedSpecialLines = <<>>
  /\ Len(pendingSpecialLinesToInsert) = 1
  /\ heap[1].lineNumber > 1
  /\ HeightForLineNumber(Cur, heap[1].lineNumber).ret = heap[1].specialHeight
  /\ TotalHeightUntilLineNumber(Cur, heap[1].lineNumber).ret
       = defaultLineHeight * (heap[1].lineNumber - 1) + heap[1].specialHeight

\* C10: on a manager whose only override, after commit, is one record on line L
\* with requested height H, for 1 <= from <= to < L and k = to - from + 1:
\* after onLinesDeleted(from, to) the record is on line L - k,
\* heightForLineNumber(L - k) = H and heightForLineNumber(L) is the default.
C10_DeletionAboveShiftsOverride ==
  LET m == Commit(Cur)
      only == At(m.ordered, 0)
  IN (/\ ~m.thrown
      /\ Len(m.ordered) = 1
      /\ only # Undefined
      /\ \A id \in Ids : m.map[id] \in {Undefined, only})
     => \A fromLineNumber \in 1..MaxLine, toLineNumber \in 1..MaxLine :
          (fromLineNumber <= toLineNumber /\ toLineNumber < m.heap[only].lineNumber) =>
            LET after == OnLinesDeleted(m, fromLineNumber, toLineNumber)
                L == m.heap[only].lineNumber
                k == toLineNumber - fromLineNumber + 1
            IN /\ ~after.thrown
               /\ after.heap[only].lineNumber = L - k
               /\ HeightForLineNumber(after, L - k).ret = m.heap[only].specialHeight
               /\ HeightForLineNumber(after, L).ret = m.defaultLineHeight

\* ------------------------------------------------- claims on committed state
\* The manager right after a commit that had work to do and returned.
CommitRan(m) == MustCommit(m) /\ ~Commit(m).thrown

\* The slots of the ordered array that hold a record.
Slots(m) == {k \in 1..Len(m.ordered) : m.ordered[k] # Undefined}

\* The record in slot k of the ordered array.
Rec(m, k) == m.heap[m.ordered[k]]

\* The line ranges <<from, to>> with 1 <= from <= to.
Ranges == {range \in (1..MaxLine) \X (1..MaxLine) : range[1] <= range[2]}

\* Every valid call on m, as the manager it leaves.
ValidCalls(m) ==
  {InsertOrChangeSpecialLineHeightUsingDecoration(m, id, n, h) :
     id \in {i \in Ids : CanInsertOrChange(m, i)}, n \in 1..MaxLine, h \in Heights}
  \cup {RemoveSpecialLineUsingDecoration(m, id) : id \in Ids}
  \cup {HeightForLineNumber(m, n).m : n \in 1..MaxLine}
  \cup {TotalHeightUntilLineNumber(m, n).m : n \in 1..MaxLine}
  \cup {OnLinesDeleted(m, range[1], range[2]) : range \in Ranges}
  \cup {OnLinesInserted(m, range[1], range[2]) : range \in Ranges}

\* C11: in every reachable state, every public operation called with valid
\* inputs (lines >= 1, 1 <= from <= to) returns without throwing.
C11_NoOperationThrows ==
  \A after \in ValidCalls(Cur) : ~after.thrown

\* C12: right after a commit the ordered array is sorted ascending by
\* lineNumber.
C12_SortedAfterCommit ==
  CommitRan(Cur) =>
    LET m == Commit(Cur)
    IN \A i \in Slots(m), j \in Slots(m) :
         i < j => Rec(m, i).lineNumber <= Rec(m, j).lineNumber

\* C13: right after a commit the records of the ordered array on one line all
\* carry the same maximumSpecialHeight, the largest of their specialHeights, and
\* the same prefixSum.
C13_RunsShareMaximumAndPrefixSum ==
  CommitRan(Cur) =>
    LET m == Commit(Cur)
    IN \A i \in Slots(m) :
         /\ Rec(m, i).maximumSpecialHeight
              = MaxOf({Rec(m, j).specialHeight :
                         j \in {k \in Slots(m) : Rec(m, k).lineNumber = Rec(m, i).lineNumber}})
         /\ \A j \in Slots(m) :
              Rec(m, j).lineNumber = Rec(m, i).lineNumber
                => Rec(m, j).prefixSum = Rec(m, i).prefixSum

\* C14: right after a commit the first record has prefixSum
\* default * (lineNumber - 1), and every record on a later line than the record P
\* before it has prefixSum P.prefixSum + P.maximumSpecialHeight
\* + default * (lineNumber - P.lineNumber - 1).
C14_PrefixSumRecurrence ==
  CommitRan(Cur) =>
    LET m == Commit(Cur)
    IN \A i \in Slots(m) :
         /\ i = 1 => Rec(m, i).prefixSum = m.defaultLineHeight * (Rec(m, i).lineNumber - 1)
         /\ (i > 1 /\ (i - 1) \in Slots(m)
                   /\ Rec(m, i - 1).lineNumber # Rec(m, i).lineNumber)
              => Rec(m, i).prefixSum
                   = Rec(m, i - 1).prefixSum + Rec(m, i - 1).maximumSpecialHeight
                     + m.defaultLineHeight
                       * (Rec(m, i).lineNumber - Rec(m, i - 1).lineNumber - 1)

\* C15: right after a commit no record of the ordered array has its deleted
\* flag set.
C15_NoDeletedRecordAfterCommit ==
  CommitRan(Cur) =>
    LET m == Commit(Cur)
    IN \A i \in Slots(m) : ~Rec(m, i).deleted

\* C16: right after a commit the decoration map holds exactly the ids of the
\* records of the ordered array, each mapped to its own record.
C16_MapMatchesOrderedAfterCommit ==
  CommitRan(Cur) =>
    LET m == Commit(Cur)
    IN /\ \A i \in Slots(m) : m.map[Rec(m, i).decorationId] = m.ordered[i]
       /\ \A id \in Ids :
            m.map[id] # Undefined => \E i \in Slots(m) : m.ordered[i] = m.map[id]

\* C17: in every reachable state every record of the ordered array has
\* lineNumber >= 1.
C17_LineNumbersArePositive ==
  \A i \in Slots(Cur) : Rec(Cur, i).lineNumber >= 1

\* C18: removeSpecialLineUsingDecoration(id) with an id the manager does not
\* know (no map entry, no record carrying it) changes no field and does not
\* throw.
C18_RemoveUnknownIsNoOp ==
  \A id \in Ids :
    UnknownId(Cur, id) => RemoveSpecialLineUsingDecoration(Cur, id) = Cur

\* C18 happens: a manager holding committed and pending records of one id is
\* asked to remove the other id, which it does not know.
C18_Witness ==
  /\ orderedSpecialLines # <<>>
  /\ pendingSpecialLinesToInsert # <<>>
  /\ \E id \in Ids :
       /\ UnknownId(Cur, id)
       /\ RemoveSpecialLineUsingDecoration(Cur, id) = Cur

\* The records (references) held by the ordered array.
Held(m) == {m.ordered[k] : k \in Slots(m)}

\* C19: onLinesDeleted(from, to) removes from the ordered array exactly the
\* records whose lineNumber was in [from, to].
C19_DeletesExactlyTheRange ==
  LET m == Commit(Cur)
  IN ~m.thrown =>
       \A range \in Ranges :
         LET after == OnLinesDeleted(m, range[1], range[2])
         IN \A r \in Held(m) :
              (r \in Held(after))
                <=> ~(range[1] <= m.heap[r].lineNumber /\ m.heap[r].lineNumber <= range[2])

\* C20: onLinesDeleted(from, to) lowers by to - from + 1 the lineNumber of every
\* surviving record that was on a line > to, and leaves the lineNumber of every
\* record that was on a line < from as it was.
C20_DeletionShiftsLaterRecords ==
  LET m == Commit(Cur)
  IN ~m.thrown =>
       \A range \in Ranges :
         LET after == OnLinesDeleted(m, range[1], range[2])
         IN \A r \in Held(m) :
              /\ (r \in Held(after) /\ m.heap[r].lineNumber > range[2])
                   => after.heap[r].lineNumber
                        = m.heap[r].lineNumber - (range[2] - range[1] + 1)
              /\ m.heap[r].lineNumber < range[1]
                   => after.heap[r].lineNumber = m.heap[r].lineNumber

\* ------------------------------------------------- claims on range edits
\* C21: onLinesInserted(from, to) adds to - from + 1 to the lineNumber of every
\* record that was on a line >= from + 1, leaves every record that was on a
\* line <= from where it was, and removes no record.
C21_InsertionShiftsLaterRecords ==
  LET m == Commit(Cur)
  IN ~m.thrown =>
       \A range \in Ranges :
         LET after == OnLinesInserted(m, range[1], range[2])
         IN \A r \in Held(m) :
              /\ r \in Held(after)
              /\ m.heap[r].lineNumber >= range[1] + 1
                   => after.heap[r].lineNumber
                        = m.heap[r].lineNumber + (range[2] - range[1] + 1)
              /\ m.heap[r].lineNumber <= range[1]
                   => after.heap[r].lineNumber = m.heap[r].lineNumber

\* heightForLineNumber(1) + ... + heightForLineNumber(n) on the manager m.
RECURSIVE SumOfHeights(_, _)
SumOfHeights(m, n) ==
  IF n <= 0 THEN 0 ELSE SumOfHeights(m, n - 1) + HeightForLineNumber(m, n).ret

\* Some record held before and after has another lineNumber after.
ShiftedSome(m, after) ==
  \E r \in Held(m) \cap Held(after) : after.heap[r].lineNumber # m.heap[r].lineNumber

\* C22: after an onLinesDeleted(from, to) that shifted at least one record,
\* totalHeightUntilLineNumber(n) is, for every n, the sum of
\* heightForLineNumber(k) for k = 1..n.
C22_TotalsRecomputedAfterDeletion ==
  LET m == Commit(Cur)
  IN ~m.thrown =>
       \A range \in Ranges :
         LET after == OnLinesDeleted(m, range[1], range[2])
         IN (~after.thrown /\ ShiftedSome(m, after)) =>
              \A n \in 1..MaxLine :
                TotalHeightUntilLineNumber(after, n).ret = SumOfHeights(after, n)

\* C23: after an onLinesInserted(from, to) that shifted at least one record,
\* totalHeightUntilLineNumber(n) is, for every n, the sum of
\* heightForLineNumber(k) for k = 1..n.
C23_TotalsRecomputedAfterInsertion ==
  LET m == Commit(Cur)
  IN ~m.thrown =>
       \A range \in Ranges :
         LET after == OnLinesInserted(m, range[1], range[2])
         IN (~after.thrown /\ ShiftedSome(m, after)) =>
              \A n \in 1..MaxLine + MaxLine :
                TotalHeightUntilLineNumber(after, n).ret = SumOfHeights(after, n)

\* ------------------------------------------------- claims on decoration calls
\* The largest specialHeight of the live records on line n other than `except`,
\* or the default height when there is none.
ExpectedHeightWithout(m, n, except) ==
  IF LiveOn(m, n) \ {except} = {} THEN m.defaultLineHeight
  ELSE MaxOf(RequestedHeights(m, LiveOn(m, n) \ {except}))

\* C24: for a committed override id on line L1, after insertOrChange(id, L2, H)
\* with L2 # L1, heightForLineNumber(L2) >= H (= H when no other override is on
\* L2) and heightForLineNumber(L1) is what the other overrides on L1 give.
C24_MovedOverrideIsFoundOnItsNewLine ==
  LET m == Commit(Cur)
  IN ~m.thrown =>
       \A id \in Ids, lineNumber \in 1..MaxLine, lineHeight \in Heights :
         LET moved == m.map[id]
         IN (/\ moved # Undefined
             /\ moved \in Held(m)
             /\ ~m.heap[moved].deleted
             /\ m.heap[moved].lineNumber # lineNumber) =>
              LET after == InsertOrChangeSpecialLineHeightUsingDecoration(m, id, lineNumber, lineHeight)
                  new == HeightForLineNumber(after, lineNumber)
                  old == HeightForLineNumber(after, m.heap[moved].lineNumber)
              IN /\ ~new.m.thrown /\ ~old.m.thrown
                 /\ new.ret >= lineHeight
                 /\ LiveOn(m, lineNumber) = {} => new.ret = lineHeight
                 /\ old.ret = ExpectedHeightWithout(m, m.heap[moved].lineNumber, moved)

\* The live records of the ordered and pending arrays that carry id.
LiveRecordsOf(m, id) ==
  {k \in Slots(m) : ~Rec(m, k).deleted /\ Rec(m, k).decorationId = id}

LivePendingOf(m, id) ==
  {k \in 1..Len(m.pending) :
     ~m.heap[m.pending[k]].deleted /\ m.heap[m.pending[k]].decorationId = id}

\* C25: in every reachable state the ordered array and the pending array
\* together hold at most one non-deleted record for each id.
C25_OneLiveRecordPerId ==
  \A id \in Ids :
    Cardinality(LiveRecordsOf(Cur, id)) + Cardinality(LivePendingOf(Cur, id)) <= 1

\* C26: when onLinesDeleted dropped the record of an id from the ordered
\* array, insertOrChange(id, L, H) followed by a query gives
\* heightForLineNumber(L) >= H.
C26_DroppedOverrideCanBeRecreated ==
  \A id \in Ids, lineNumber \in 1..MaxLine, lineHeight \in Heights :
    (/\ ~MustCommit(Cur)
     /\ decorationIDToSpecialLine[id] # Undefined
     /\ decorationIDToSpecialLine[id] \notin Held(Cur)) =>
      LET height == HeightForLineNumber(
                      InsertOrChangeSpecialLineHeightUsingDecoration(Cur, id, lineNumber, lineHeight),
                      lineNumber)
      IN ~height.m.thrown /\ height.ret >= lineHeight

\* ------------------------------------------------------- claims on commit
\* commit() with _invalidIndex forced to 0 once the pending records are merged:
\* every record is recomputed.
CommitFromZero(m) ==
  IF ~m.hasPending THEN m
  ELSE CommitMerged([MergePending(m, 1) EXCEPT !.invalidIndex = 0])

\* The records of the ordered array, by value (an empty slot is <<>>).
Contents(m) ==
  [k \in 1..Len(m.ordered) |->
     IF m.ordered[k] = Undefined THEN <<>> ELSE <<m.heap[m.ordered[k]]>>]

\* C27: a commit leaves the ordered array with the contents that the same
\* commit run with _invalidIndex forced to 0 leaves.
C27_LazyCommitEqualsFullRecomputation ==
  (CommitRan(Cur) /\ ~CommitFromZero(Cur).thrown) =>
    Contents(Commit(Cur)) = Contents(CommitFromZero(Cur))

\* The records (references) in the pending array.
Pending(m) == {m.pending[k] : k \in 1..Len(m.pending)}

\* C28: every non-deleted record that is in the ordered or the pending array
\* when a commit starts is in the ordered array exactly once when it returns,
\* and the commit puts no other record there.
C28_CommitConservesLiveRecords ==
  CommitRan(Cur) =>
    LET m == Commit(Cur)
    IN /\ \A r \in Held(Cur) \cup Pending(Cur) :
            ~heap[r].deleted => Cardinality({k \in Slots(m) : m.ordered[k] = r}) = 1
       /\ Held(m) \subseteq Held(Cur) \cup Pending(Cur)

\* C28 happens: a commit starts with a deleted record in the ordered array and
\* a live record pending, and returns with the live one only.
C28_Witness ==
  /\ CommitRan(Cur)
  /\ pendingSpecialLinesToInsert # <<>>
  /\ \E r \in Held(Cur) : heap[r].deleted
  /\ Held(Commit(Cur)) = {r \in Held(Cur) \cup Pending(Cur) : ~heap[r].deleted}
  /\ Held(Commit(Cur)) # {}

\* C29: right after a commit that ran on a dirty manager the pending array is
\* empty, mustCommit() is false and _invalidIndex is Infinity.
C29_CommitClearsPendingState ==
  CommitRan(Cur) =>
    LET m == Commit(Cur)
    IN /\ m.pending = <<>>
       /\ ~MustCommit(m)
       /\ m.invalidIndex = Infinity

\* C29 happens: a dirty manager with pending records and a finite
\* _invalidIndex is committed.
C29_Witness ==
  /\ CommitRan(Cur)
  /\ pendingSpecialLinesToInsert # <<>>
  /\ orderedSpecialLines # <<>>
  /\ invalidIndex # Infinity
  /\ Commit(Cur).invalidIndex = Infinity
  /\ Len(Commit(Cur).ordered) > Len(orderedSpecialLines)

\* C30: insertOrChange(id, L, H) for an id the manager does not know appends
\* one record with index -1 to the pending array and sets _hasPending; the
\* ordered array, the map, every existing record, _invalidIndex and the
\* default height stay as they were.
C30_InsertOnlyRecordsIntent ==
  \A id \in Ids, lineNumber \in 1..MaxLine, lineHeight \in Heights :
    UnknownId(Cur, id) =>
      LET after == InsertOrChangeSpecialLineHeightUsingDecoration(Cur, id, lineNumber, lineHeight)
          new == Len(heap) + 1
      IN /\ ~after.thrown
         /\ after.pending = Append(pendingSpecialLinesToInsert, new)
         /\ after.heap = Append(heap, SpecialLine(id, 0 - 1, lineNumber, lineHeight, 0))
         /\ after.heap[new].index = 0 - 1
         /\ MustCommit(after)
         /\ after.ordered = orderedSpecialLines
         /\ after.map = decorationIDToSpecialLine
         /\ after.invalidIndex = invalidIndex
         /\ after.defaultLineHeight = defaultLineHeight

\* C30 happens: after a commit, an unknown id was inserted: its record waits in
\* the pending array with index -1 while _invalidIndex is still Infinity.
C30_Witness ==
  /\ orderedSpecialLines # <<>>
  /\ invalidIndex = Infinity
  /\ hasPending
  /\ Len(pendingSpecialLinesToInsert) = 1
  /\ heap[pendingSpecialLinesToInsert[1]].index = 0 - 1
  /\ \A k \in Slots(Cur) :
       Rec(Cur, k).decorationId # heap[pendingSpecialLinesToInsert[1]].decorationId

\* ------------------------------------------------- claims on frame effects
\* C31: insertOrChange(id, L, H) for an id the map holds creates no record: it
\* writes L and H into that record, lowers _invalidIndex to the record's index
\* when that is smaller, sets _hasPending, and leaves the pending array, the
\* ordered array, the map and every other record as they were.
C31_ChangeOfKnownIdIsInPlace ==
  \A id \in Ids, lineNumber \in 1..MaxLine, lineHeight \in Heights :
    LET record == decorationIDToSpecialLine[id]
        after == InsertOrChangeSpecialLineHeightUsingDecoration(Cur, id, lineNumber, lineHeight)
    IN record # Undefined =>
         /\ ~after.thrown
         /\ Len(after.heap) = Len(heap)
         /\ \A r \in 1..Len(heap) :
              IF r = record
              THEN after.heap[r] = [heap[r] EXCEPT !.lineNumber = lineNumber,
                                                   !.specialHeight = lineHeight]
              ELSE after.heap[r] = heap[r]
         /\ after.invalidIndex
              = (IF heap[record].index < invalidIndex THEN heap[record].index ELSE invalidIndex)
         /\ MustCommit(after)
         /\ after.pending = pendingSpecialLinesToInsert
         /\ after.ordered = orderedSpecialLines
         /\ after.map = decorationIDToSpecialLine
         /\ after.defaultLineHeight = defaultLineHeight

\* C31 happens: the requested height of a committed record was raised in
\* place: it is above the maximum the last commit stored, and nothing is
\* pending.
C31_Witness ==
  /\ hasPending
  /\ pendingSpecialLinesToInsert = <<>>
  /\ invalidIndex # Infinity
  /\ \E k \in Slots(Cur) :
       /\ ~Rec(Cur, k).deleted
       /\ decorationIDToSpecialLine[Rec(Cur, k).decorationId] = orderedSpecialLines[k]
       /\ Rec(Cur, k).specialHeight > Rec(Cur, k).maximumSpecialHeight
       /\ invalidIndex <= Rec(Cur, k).index

\* C32: removeSpecialLineUsingDecoration(id) for an id the map holds sets the
\* record's deleted flag, lowers _invalidIndex to the record's index when that
\* is smaller, and sets _hasPending; the ordered array (with the record), the
\* pending array and every other record stay as they were.
C32_RemoveOfKnownIdTombstones ==
  \A id \in Ids :
    LET record == decorationIDToSpecialLine[id]
        after == RemoveSpecialLineUsingDecoration(Cur, id)
    IN record # Undefined =>
         /\ ~after.thrown
         /\ Len(after.heap) = Len(heap)
         /\ \A r \in 1..Len(heap) :
              IF r = record
              THEN after.heap[r] = [heap[r] EXCEPT !.deleted = TRUE]
              ELSE after.heap[r] = heap[r]
         /\ after.invalidIndex
              = (IF heap[record].index < invalidIndex THEN heap[record].index ELSE invalidIndex)
         /\ MustCommit(after)
         /\ after.pending = pendingSpecialLinesToInsert
         /\ after.ordered = orderedSpecialLines
         /\ after.defaultLineHeight = defaultLineHeight

\* C32 happens: a removed record is still in the ordered array, with its
\* deleted flag set, and _invalidIndex is at or below its index.
C32_Witness ==
  /\ hasPending
  /\ invalidIndex # Infinity
  /\ \E k \in Slots(Cur) :
       /\ Rec(Cur, k).deleted
       /\ decorationIDToSpecialLine[Rec(Cur, k).decorationId] # orderedSpecialLines[k]
       /\ invalidIndex <= Rec(Cur, k).index

\* C33: the defaultLineHeight setter changes _defaultLineHeight only: the
\* records, the ordered array, the map, the pending array, _invalidIndex and
\* _hasPending stay as they were, and on a manager that was not dirty the next
\* query changes nothing.
C33_SetterChangesDefaultOnly ==
  \A h \in Defaults :
    LET after == SetDefaultLineHeight(Cur, h)
    IN /\ ~after.thrown
       /\ after.defaultLineHeight = h
       /\ after.heap = heap
       /\ after.ordered = orderedSpecialLines
       /\ after.map = decorationIDToSpecialLine
       /\ after.pending = pendingSpecialLinesToInsert
       /\ after.invalidIndex = invalidIndex
       /\ MustCommit(after) = hasPending
       /\ ~hasPending =>
            \A n \in 1..MaxLine :
              LET height == HeightForLineNumber(after, n)
              IN ~height.m.thrown => height.m = after

\* C33 happens: the default was changed after a commit: the first record, on
\* the last line, still has the prefix sum of another default.
C33_Witness ==
  /\ ~hasPending
  /\ Len(orderedSpecialLines) = 1
  /\ 1 \in Slots(Cur)
  /\ Rec(Cur, 1).lineNumber = MaxLine
  /\ \E d \in Defaults :
       /\ d # defaultLineHeight
       /\ Rec(Cur, 1).prefixSum = d * (MaxLine - 1)

\* ---------------------------------------------- claims on the ordered array
\* The records of m that stand for a live override on a line at or above n:
\* the records the map holds and the non-deleted records of the ordered array.
LiveUpTo(m, n) ==
  {r \in 1..Len(m.heap) :
     /\ m.heap[r].lineNumber <= n
     /\ \/ \E id \in Ids : m.map[id] = r
        \/ r \in Held(m) /\ ~m.heap[r].deleted}

\* C34: when no live override is on any line 1..n, totalHeightUntilLineNumber(n)
\* returns defaultLineHeight * n with the current default.
C34_TotalWithoutOverridesIsDefault ==
  \A n \in 1..MaxLine :
    LET total == TotalHeightUntilLineNumber(Cur, n)
    IN (~total.m.thrown /\ LiveUpTo(total.m, n) = {}) =>
         total.ret = defaultLineHeight * n

\* C35: whenever the manager is not dirty, every record's index field is its
\* position in the ordered array.
C35_IndexIsPosition ==
  ~hasPending => \A k \in Slots(Cur) : Rec(Cur, k).index = k - 1

\* C36: a record that commit merges into the ordered array is placed behind
\* the records that were on its line already.
C36_TiesKeepInsertionOrder ==
  LET m == Commit(Cur)
  IN ~m.thrown =>
       \A id \in Ids, lineNumber \in 1..MaxLine, lineHeight \in Heights :
         LET new == Len(m.heap) + 1
             after == Commit(InsertOrChangeSpecialLineHeightUsingDecoration(m, id, lineNumber, lineHeight))
         IN (UnknownId(m, id) /\ ~after.thrown) =>
              \A k, j \in Slots(after) :
                ( /\ after.ordered[j] = new
                  /\ after.ordered[k] \in Held(m)
                  /\ ~m.heap[after.ordered[k]].deleted
                  /\ m.heap[after.ordered[k]].lineNumber = lineNumber ) => k < j

====
